---- MODULE Spec2Model ----
(***************************************************************************)
(* Autotask MCP server (src/autotask_mcp.py): the HTTP adapter, the three  *)
(* name/email -> id resolvers and the tool operations, as a state machine. *)
(* One behaviour is one invocation: an entry point is called with its      *)
(* arguments, runs up to each awaited HTTP request, the upstream answers,  *)
(* and the invocation ends with a returned value.  SpecConcurrent runs two *)
(* invocations on one event loop.                                          *)
(*                                                                         *)
(* A Python str is a sequence of one-character strings; Optional[T] is the *)
(* empty set (None) or a singleton; a dict is a record; a list a sequence. *)
(***************************************************************************)
EXTENDS Integers, Sequences, FiniteSets, TLC

VARIABLES env, pc, tool, p, loc, lk, ret, wire, resp, result, suspended

vars == <<env, pc, tool, p, loc, lk, ret, wire, resp, result, suspended>>

(***************************************************************************)
(* Bounds of the model.                                                    *)
(***************************************************************************)
\* longest raw string argument
MaxStrLen == 3
\* longest "items" list an upstream query answers with
MaxItems == 2
\* largest numeric id (ids are 1..MaxId)
MaxId == 2

(***************************************************************************)
(* Values.                                                                 *)
(***************************************************************************)
None == {}
Some(x) == {x}
Val(o) == CHOOSE x \in o : TRUE
Opt(S) == {None} \cup {Some(x) : x \in S}

Chars == {"a", "A", " "}
IsSpace(c) == c = " "
Str(n) == UNION {[1..k -> Chars] : k \in 0..n}
RawStr == Str(MaxStrLen)
Ids == 1..MaxId

\* Python truthiness of an Optional[str] / Optional[int]
TruthyStr(o) == o # None /\ Len(Val(o)) > 0
TruthyInt(o) == o # None /\ Val(o) # 0

(***************************************************************************)
(* str methods.                                                            *)
(***************************************************************************)
RECURSIVE LStrip(_)
LStrip(s) == IF Len(s) > 0 /\ IsSpace(s[1]) THEN LStrip(SubSeq(s, 2, Len(s))) ELSE s

RECURSIVE RStrip(_)
RStrip(s) == IF Len(s) > 0 /\ IsSpace(s[Len(s)]) THEN RStrip(SubSeq(s, 1, Len(s) - 1)) ELSE s

\* str.strip()
Strip(s) == RStrip(LStrip(s))

\* pydantic ConfigDict(str_strip_whitespace=True) on an Optional[str] field
StrStripWhitespace(o) == IF o = None THEN None ELSE Some(Strip(Val(o)))

\* length of the longest prefix of s without whitespace
RECURSIVE TokenLen(_)
TokenLen(s) == IF Len(s) = 0 \/ IsSpace(s[1]) THEN 0 ELSE 1 + TokenLen(SubSeq(s, 2, Len(s)))

\* str.split(None, 1): at most one split, on the first run of whitespace
Split1(s) ==
    LET t == LStrip(s)
        k == TokenLen(t)
        r == LStrip(SubSeq(t, k + 1, Len(t)))
    IN  IF Len(t) = 0 THEN <<>>
        ELSE IF Len(r) = 0 THEN <<SubSeq(t, 1, k)>>
        ELSE <<SubSeq(t, 1, k), r>>

\* str.lower()
LowerChar(c) == IF c = "A" THEN "a" ELSE c
Lower(s) == [i \in 1..Len(s) |-> LowerChar(s[i])]

\* method.upper() of the verbs a caller may pass
Methods == {"GET", "POST", "PATCH", "PUT", "DELETE", "HEAD", "get", "patch"}
Upper(method) ==
    CASE method = "get" -> "GET"
      [] method = "patch" -> "PATCH"
      [] OTHER -> method


(***************************************************************************)
(* Configuration (module level, read once from the environment).           *)
(* env.X is TRUE when the variable is set to a non-empty string.           *)
(***************************************************************************)
\* everything set, one variable unset, the URL and a credential unset, nothing set
EnvSet ==
    {e \in [username : BOOLEAN, secret : BOOLEAN, code : BOOLEAN, api_url : BOOLEAN] :
        \/ Cardinality({e.username, e.secret, e.code}) = 1 /\ e.api_url = e.username
        \/ Cardinality({v \in {"username", "secret", "code", "api_url"} : ~e[v]}) = 1
        \/ ~e.username /\ ~e.api_url /\ e.secret /\ e.code}

\* AUTOTASK_API_URL = os.getenv("AUTOTASK_API_URL", <default>)
AUTOTASK_API_URL == IF env.api_url THEN "configured" ELSE "https://webservices.autotask.net/ATServicesRest/v1.0"

\* _validate_config() -> (is_valid, error_msg)
validate_config_always_valid == [ok |-> TRUE, msg |-> ""]
validate_config ==
    IF ~env.username THEN [ok |-> FALSE, msg |-> "AUTOTASK_USERNAME environment variable not set"]
    ELSE IF ~env.secret THEN [ok |-> FALSE, msg |-> "AUTOTASK_SECRET environment variable not set"]
    ELSE IF ~env.code THEN [ok |-> FALSE, msg |-> "AUTOTASK_INTEGRATION_CODE environment variable not set"]
    ELSE [ok |-> TRUE, msg |-> ""]

(***************************************************************************)
(* The upstream: what one HTTP request can end in.                         *)
(***************************************************************************)
SeqsUpTo(S, n) == UNION {[1..k -> S] : k \in 0..n}

StatusCodes == {400, 401, 403, 404, 429, 500}
\* shapes of a non-2xx response body, as _handle_api_error tells them apart
ErrorBodies == {"text", "errors_message", "errors_timed_out", "errors_empty", "no_errors"}
\* errors[0]["message"] of a body that has one: whatever the upstream wrote
ErrorMessage(body) ==
    IF body = "errors_timed_out" THEN "Request timed out. Please try again." ELSE "upstream message"

\* every status with a text body, 400 with every body, 500 with the "errors" messages
Failures ==
    {[kind |-> "connect_error"], [kind |-> "timeout"], [kind |-> "invalid_json", text |-> "raw text"]}
    \cup {[kind |-> "http_status", status |-> x[1], body |-> x[2]] :
             x \in {y \in StatusCodes \X ErrorBodies :
                       y[1] = 400 \/ y[2] = "text"
                       \/ (y[1] = 500 /\ y[2] \in {"errors_message", "errors_timed_out"})}}

\* a 2xx response with a JSON body: an object (with or without "items" / "itemId") or not an object
JsonArray == [type |-> "array"]
JsonObject(items, itemId) == [type |-> "object", items |-> items, itemId |-> itemId]
QueryBodies(Items) ==
    {JsonArray, JsonObject(None, None)}
    \cup {JsonObject(Some(l), None) : l \in SeqsUpTo(Items, MaxItems)}
CreateBodies == {JsonArray, JsonObject(None, None)} \cup {JsonObject(None, Some(i)) : i \in Ids}

QueryOutcomes(Items) == Failures \cup {[kind |-> "json", body |-> b] : b \in QueryBodies(Items)}
CreateOutcomes == Failures \cup {[kind |-> "json", body |-> b] : b \in CreateBodies}

\* companies the upstream may list: a name that contains "a" without being it, names equal
\* to "a" up to case, and a record without companyName
CompanyItems ==
    { [id |-> Some(1), companyName |-> Some(<<"a", "A">>)],
      [id |-> Some(2), companyName |-> Some(<<"A">>)],
      [id |-> Some(3), companyName |-> Some(<<"a">>)],
      [id |-> Some(4), companyName |-> None] }
\* resources and contacts the upstream may list
PersonItems == {[id |-> Some(i)] : i \in Ids}

(***************************************************************************)
(* HTTP adapter: _make_api_request.                                        *)
(***************************************************************************)
Request(method, endpoint, data) ==
    [method |-> method, base |-> AUTOTASK_API_URL, endpoint |-> endpoint, data |-> data]

\* what the await of the client call, raise_for_status() and response.json() end in
Raised(e) == [raised |-> TRUE, exc |-> e]
Returned(v) == [raised |-> FALSE, value |-> v]
make_api_request_result(o) ==
    CASE o.kind = "connect_error" -> Raised([exc |-> "ConnectError"])
      [] o.kind = "timeout" -> Raised([exc |-> "TimeoutException"])
      [] o.kind = "http_status" -> Raised([exc |-> "HTTPStatusError", status |-> o.status, body |-> o.body])
      [] o.kind = "invalid_json" -> Raised([exc |-> "JSONDecodeError", msg |-> "Expecting value"])
      [] o.kind = "json" -> Returned(o.body)

\* result.get("items", []) ; raises AttributeError when the JSON value is not an object
GetItems(json) == IF json.items = None THEN <<>> ELSE Val(json.items)

(***************************************************************************)
(* Filter conditions and groups.                                           *)
(***************************************************************************)
Cond(field, op, value) == [field |-> field, op |-> op, value |-> value]
Group(op, items) == [op |-> op, items |-> items]
Exists == [op |-> "exist", field |-> "id"]

\* filters if len(filters) == 1 else [{"op": "and", "items": filters}]
lookup_filter(filters) == IF Len(filters) = 1 THEN filters ELSE <<Group("and", filters)>>

QueryBody(max, filter) == [MaxRecords |-> max, filter |-> filter]

\* the part of _make_api_request before the network call: the configuration check and
\* the dispatch on the verb; "send" when the request goes out
SupportedMethods == {"GET", "POST", "PATCH", "DELETE"}
make_api_request_precheck_sends_any(method) ==
    IF ~validate_config.ok THEN Raised([exc |-> "ValueError", msg |-> validate_config.msg])
    ELSE Returned("send")
make_api_request_precheck(method) ==
    IF ~validate_config.ok THEN Raised([exc |-> "ValueError", msg |-> validate_config.msg])
    ELSE IF Upper(method) \notin SupportedMethods
         THEN Raised([exc |-> "ValueError", msg |-> <<"Unsupported HTTP method: ", method>>])
    ELSE Returned("send")

\* the request the client call puts on the wire: json=data goes with POST and PATCH only
NoBody == [none |-> TRUE]
make_api_request_send(method, endpoint, data) ==
    Request(Upper(method), endpoint, IF Upper(method) \in {"POST", "PATCH"} THEN data ELSE NoBody)

(***************************************************************************)
(* Entity resolvers: _lookup_company_id, _lookup_resource_id,              *)
(* _lookup_contact_id.  lk is the resolver's frame (its arguments and the  *)
(* label it returns to), ret the value it returns.                         *)
(***************************************************************************)
NoFrame == [fn |-> "none"]
Frame(fn, name, email, company_id, ret_to) ==
    [fn |-> fn, name |-> name, email |-> email, company_id |-> company_id, ret_to |-> ret_to]

Min(S) == CHOOSE x \in S : \A y \in S : x <= y

\* company.get("companyName", "")
CompanyName(c) == IF c.companyName = None THEN <<>> ELSE Val(c.companyName)

lookup_company_id_body(name) == QueryBody(5, <<Cond("companyName", "contains", name)>>)

\* the loop over companies and the fallback to the first result
pick_company_first_result(companies, name) == companies[1].id
pick_company(companies, name) ==
    LET m == {i \in 1..Len(companies) : Lower(CompanyName(companies[i])) = Lower(name)}
    IN  IF m # {} THEN companies[Min(m)].id ELSE companies[1].id

\* try: ... except: return None  (the bare except of each resolver)
except_reraise(completion) == completion
except_return_none(completion) == IF completion.raised THEN Returned(None) ELSE completion

\* the resolver's body after the await; result.get raises AttributeError on a non-object
lookup_company_id_result(o, name) ==
    LET c == make_api_request_result(o)
    IN  except_return_none(
          IF c.raised THEN c
          ELSE IF c.value.type # "object" THEN Raised([exc |-> "AttributeError"])
          ELSE IF Len(GetItems(c.value)) = 0 THEN Returned(None)
          ELSE Returned(pick_company(GetItems(c.value), name)))

\* name_parts = name.strip().split(None, 1) and the filters built from it
name_filters(name) ==
    LET name_parts == Split1(Strip(name))
    IN  IF Len(name_parts) = 2
        THEN << Cond("firstName", "contains", name_parts[1]),
                Cond("lastName", "contains", name_parts[2]) >>
        ELSE << Group("or", << Cond("firstName", "contains", name),
                               Cond("lastName", "contains", name) >>) >>

\* filters of _lookup_resource_id; None when the function returns before building a query
lookup_resource_filters_name_first(name, email) ==
    IF TruthyStr(name) THEN Some(name_filters(Val(name)))
    ELSE IF TruthyStr(email) THEN Some(<<Cond("email", "eq", Val(email))>>)
    ELSE None
lookup_resource_filters_always_query(name, email) ==
    IF TruthyStr(email) THEN Some(<<Cond("email", "eq", Val(email))>>)
    ELSE IF TruthyStr(name) THEN Some(name_filters(Val(name)))
    ELSE Some(<<>>)
lookup_resource_filters(name, email) ==
    IF TruthyStr(email) THEN Some(<<Cond("email", "eq", Val(email))>>)
    ELSE IF TruthyStr(name) THEN Some(name_filters(Val(name)))
    ELSE None

\* filters of _lookup_contact_id (possibly empty)
lookup_contact_filters_company_alone(email, name, company_id) ==
    IF TruthyStr(email) THEN <<Cond("emailAddress", "eq", Val(email))>>
    ELSE IF TruthyStr(name) THEN name_filters(Val(name))
    ELSE IF TruthyInt(company_id) THEN <<Cond("companyID", "eq", Val(company_id))>>
    ELSE <<>>
lookup_contact_filters(email, name, company_id) ==
    (IF TruthyStr(email) THEN <<Cond("emailAddress", "eq", Val(email))>>
     ELSE IF TruthyStr(name) THEN name_filters(Val(name))
     ELSE <<>>)
    \o (IF TruthyInt(company_id) THEN <<Cond("companyID", "eq", Val(company_id))>> ELSE <<>>)

\* resources[0].get("id") / contacts[0].get("id") after the await, inside try / except
lookup_first_id(o) ==
    LET c == make_api_request_result(o)
    IN  except_return_none(
          IF c.raised THEN c
          ELSE IF c.value.type # "object" THEN Raised([exc |-> "AttributeError"])
          ELSE IF Len(GetItems(c.value)) = 0 THEN Returned(None)
          ELSE Returned(GetItems(c.value)[1].id))

\* a resolver's request goes out, or _make_api_request raises and the resolver returns None
LookupSend(endpoint, body) ==
    IF make_api_request_precheck("POST").raised
    THEN /\ ret' = except_return_none(make_api_request_precheck("POST"))
         /\ pc' = lk.ret_to
         /\ wire' = wire
    ELSE /\ wire' = Append(wire, make_api_request_send("POST", endpoint, body))
         /\ pc' = "lookup_wait"
         /\ ret' = ret

lookup_company_id_call ==
    /\ pc = "lookup"
    /\ lk.fn = "company"
    /\ LookupSend("Companies/query", lookup_company_id_body(Val(lk.name)))
    /\ UNCHANGED <<env, suspended, tool, p, loc, lk, resp, result>>

lookup_company_id_return ==
    /\ pc = "lookup_wait"
    /\ lk.fn = "company"
    /\ \E o \in QueryOutcomes(CompanyItems) :
          /\ resp' = o
          /\ ret' = lookup_company_id_result(o, Val(lk.name))
    /\ pc' = lk.ret_to
    /\ UNCHANGED <<env, suspended, tool, p, loc, lk, wire, result>>

lookup_resource_id_call ==
    /\ pc = "lookup"
    /\ lk.fn = "resource"
    /\ LET filters == lookup_resource_filters(lk.name, lk.email)
       IN  IF filters = None
           THEN /\ ret' = Returned(None)
                /\ pc' = lk.ret_to
                /\ wire' = wire
           ELSE LookupSend("Resources/query", QueryBody(5, lookup_filter(Val(filters))))
    /\ UNCHANGED <<env, suspended, tool, p, loc, lk, resp, result>>

lookup_resource_id_return ==
    /\ pc = "lookup_wait"
    /\ lk.fn = "resource"
    /\ \E o \in QueryOutcomes(PersonItems) :
          /\ resp' = o
          /\ ret' = lookup_first_id(o)
    /\ pc' = lk.ret_to
    /\ UNCHANGED <<env, suspended, tool, p, loc, lk, wire, result>>

lookup_contact_id_call ==
    /\ pc = "lookup"
    /\ lk.fn = "contact"
    /\ LET filters == lookup_contact_filters(lk.email, lk.name, lk.company_id)
       IN  IF Len(filters) = 0
           THEN /\ ret' = Returned(None)
                /\ pc' = lk.ret_to
                /\ wire' = wire
           ELSE LookupSend("Contacts/query", QueryBody(5, lookup_filter(filters)))
    /\ UNCHANGED <<env, suspended, tool, p, loc, lk, resp, result>>

lookup_contact_id_return ==
    /\ pc = "lookup_wait"
    /\ lk.fn = "contact"
    /\ \E o \in QueryOutcomes(PersonItems) :
          /\ resp' = o
          /\ ret' = lookup_first_id(o)
    /\ pc' = lk.ret_to
    /\ UNCHANGED <<env, suspended, tool, p, loc, lk, wire, result>>

Lookups ==
    \/ lookup_company_id_call
    \/ lookup_company_id_return
    \/ lookup_resource_id_call
    \/ lookup_resource_id_return
    \/ lookup_contact_id_call
    \/ lookup_contact_id_return

(***************************************************************************)
(* The resolvers on their own: each is called once with arguments of its   *)
(* signature.  A str argument is a field of a model validated with         *)
(* str_strip_whitespace=True, an id a field validated with gt=0.           *)
(***************************************************************************)
NoParams == [none |-> TRUE]
NoResponse == [kind |-> "none"]
OptStr == {StrStripWhitespace(o) : o \in Opt(RawStr)}
\* e-mail arguments: absent, empty (or blank) and two addresses
OptEmail == {StrStripWhitespace(o) : o \in Opt(Str(1))}
OptId == Opt(Ids)

\* the frame of an invocation that has not started
IdleContext ==
    [pc |-> "idle", tool |-> "none", p |-> NoParams, loc |-> NoParams, lk |-> NoFrame,
     ret |-> Returned(None), wire |-> <<>>, resp |-> NoResponse, result |-> None]

Init ==
    /\ env \in EnvSet
    /\ suspended = IdleContext
    /\ pc = "idle"
    /\ tool = "none"
    /\ p = NoParams
    /\ loc = NoParams
    /\ lk = NoFrame
    /\ ret = Returned(None)
    /\ wire = <<>>
    /\ resp = NoResponse
    /\ result = None

\* _lookup_company_id(company_name), called with a non-empty name (line 534)
call_lookup_company_id ==
    /\ pc = "idle"
    /\ \E name \in OptStr :
          /\ TruthyStr(name)
          /\ lk' = Frame("company", name, None, None, "done")
    /\ tool' = "lookup_company_id"
    /\ pc' = "lookup"
    /\ UNCHANGED <<env, suspended, p, loc, ret, wire, resp, result>>

\* _lookup_resource_id(resource_name=None, resource_email=None)
call_lookup_resource_id ==
    /\ pc = "idle"
    /\ \E name \in OptStr, email \in OptEmail :
          lk' = Frame("resource", name, email, None, "done")
    /\ tool' = "lookup_resource_id"
    /\ pc' = "lookup"
    /\ UNCHANGED <<env, suspended, p, loc, ret, wire, resp, result>>

\* _lookup_contact_id(contact_email=None, contact_name=None, company_id=None)
call_lookup_contact_id ==
    /\ pc = "idle"
    /\ \E email \in OptEmail, name \in OptStr, company_id \in OptId :
          lk' = Frame("contact", name, email, company_id, "done")
    /\ tool' = "lookup_contact_id"
    /\ pc' = "lookup"
    /\ UNCHANGED <<env, suspended, p, loc, ret, wire, resp, result>>

NextResolver ==
    \/ call_lookup_company_id
    \/ call_lookup_resource_id
    \/ call_lookup_contact_id
    \/ Lookups

SpecResolver == Init /\ [][NextResolver]_vars

(***************************************************************************)
(* The adapter on its own: _make_api_request(method, endpoint, data) is    *)
(* called once; ret is what the call ends in.                              *)
(***************************************************************************)
Endpoints == {"Tickets/1", "Tickets", "Companies/query"}

call_make_api_request ==
    /\ pc = "idle"
    /\ \E method \in Methods, endpoint \in Endpoints,
          data \in {NoBody, QueryBody(1, <<Exists>>)} :
          /\ p' = [method |-> method, endpoint |-> endpoint, data |-> data]
          /\ IF make_api_request_precheck(method).raised
             THEN /\ ret' = make_api_request_precheck(method)
                  /\ pc' = "done"
                  /\ wire' = wire
             ELSE /\ wire' = Append(wire, make_api_request_send(method, endpoint, data))
                  /\ pc' = "req_wait"
                  /\ ret' = ret
    /\ tool' = "make_api_request"
    /\ UNCHANGED <<env, suspended, loc, lk, resp, result>>

\* (a variant that issues a failed request a second time)
make_api_request_return_retry ==
    /\ pc = "req_wait"
    /\ \E o \in CreateOutcomes :
          /\ resp' = o
          /\ IF o.kind # "json" /\ Len(wire) < 2
             THEN /\ wire' = Append(wire, wire[Len(wire)])
                  /\ UNCHANGED <<ret, pc>>
             ELSE /\ ret' = make_api_request_result(o)
                  /\ pc' = "done"
                  /\ wire' = wire
    /\ UNCHANGED <<env, suspended, tool, p, loc, lk, result>>

\* lines 138-139: raise_for_status() and response.json(), once
make_api_request_return ==
    /\ pc = "req_wait"
    /\ \E o \in CreateOutcomes :
          /\ resp' = o
          /\ ret' = make_api_request_result(o)
    /\ pc' = "done"
    /\ UNCHANGED <<env, suspended, tool, p, loc, lk, wire, result>>

NextAdapter ==
    \/ call_make_api_request
    \/ make_api_request_return

SpecAdapter == Init /\ [][NextAdapter]_vars

(***************************************************************************)
(* Error formatting: _handle_api_error.  A returned string is a sequence   *)
(* of its parts (the literal text and the values formatted into it).       *)
(***************************************************************************)
handle_api_error_bare(e) == <<"Unexpected error occurred: ", e>>
handle_api_error(e) ==
    IF e.exc = "HTTPStatusError"
    THEN IF e.body \in {"errors_message", "errors_timed_out"} THEN <<"Error: ", ErrorMessage(e.body)>>
         ELSE IF e.status = 400
              THEN <<"Error: ", "Bad request. ",
                     IF e.body = "text" THEN "Please check your input parameters." ELSE e.body>>
         ELSE IF e.status = 401
              THEN <<"Error: ", "Authentication failed. Please check your Autotask credentials.">>
         ELSE IF e.status = 403
              THEN <<"Error: ", "Permission denied. You don't have access to this resource.">>
         ELSE IF e.status = 404
              THEN <<"Error: ", "Resource not found. Please check the ID is correct.">>
         ELSE IF e.status = 429
              THEN <<"Error: ", "Rate limit exceeded. Please wait before making more requests.">>
         ELSE <<"Error: ", "API request failed with status ", e.status>>
    ELSE IF e.exc = "TimeoutException"
         THEN <<"Error: ", "Request timed out. Please try again.">>
    ELSE <<"Error: ", "Unexpected error occurred: ", e>>

(***************************************************************************)
(* Tool operations.  p is the validated parameter object, loc the locals   *)
(* of the running tool, result the string it returns.                      *)
(***************************************************************************)
\* short string arguments after str_strip_whitespace: absent, empty, "a", "A"
OptShort == {StrStripWhitespace(o) : o \in Opt(Str(1))}
\* string filters of the search tools: absent, empty (or blank), "a"
OptFilterStr == {StrStripWhitespace(o) : o \in {None, Some(<<>>), Some(<<" ">>), Some(<<"a">>)}}
Formats == {"markdown", "json"}
Limits == {1, 20}

\* a tool's request goes out, or _make_api_request raises and the tool's
\* "except Exception as e: return _handle_api_error(e)" returns
ToolSend(method, endpoint, data, wait) ==
    IF make_api_request_precheck(method).raised
    THEN /\ result' = Some(handle_api_error(make_api_request_precheck(method).exc))
         /\ pc' = "done"
         /\ wire' = wire
    ELSE /\ wire' = Append(wire, make_api_request_send(method, endpoint, data))
         /\ pc' = wait
         /\ result' = result

\* query_body["filter"] of the search tools
search_filter_no_placeholder(filters) == IF Len(filters) = 1 THEN filters ELSE <<Group("and", filters)>>
search_filter(filters) ==
    IF Len(filters) > 0
    THEN IF Len(filters) = 1 THEN filters ELSE <<Group("and", filters)>>
    ELSE <<Exists>>

IfInt(o, field, op) == IF TruthyInt(o) THEN <<Cond(field, op, Val(o))>> ELSE <<>>
IfStr(o, field, op) == IF TruthyStr(o) THEN <<Cond(field, op, Val(o))>> ELSE <<>>

search_tickets_filters(q) ==
    IfInt(q.company_id, "companyID", "eq")
    \o (IF q.status # None THEN <<Cond("status", "eq", Val(q.status))>> ELSE <<>>)
    \o IfInt(q.assigned_resource_id, "assignedResourceID", "eq")
    \o IfInt(q.queue_id, "queueID", "eq")

search_contacts_filters(q) ==
    IfInt(q.company_id, "companyID", "eq")
    \o IfStr(q.email, "emailAddress", "contains")
    \o IfStr(q.first_name, "firstName", "contains")
    \o IfStr(q.last_name, "lastName", "contains")

search_resources_filters(q) ==
    IfStr(q.email, "email", "eq")
    \o IfStr(q.first_name, "firstName", "contains")
    \o IfStr(q.last_name, "lastName", "contains")
    \o IfStr(q.user_name, "userName", "contains")
    \o (IF q.active_only THEN <<Cond("active", "eq", TRUE)>> ELSE <<>>)

\* what a search tool returns for the upstream's answer
search_result(o, q, none_found, heading) ==
    LET c == make_api_request_result(o)
    IN  IF c.raised THEN handle_api_error(c.exc)
        ELSE IF c.value.type # "object" THEN handle_api_error([exc |-> "AttributeError"])
        ELSE IF q.response_format = "json"
             THEN <<"json", [total |-> Len(GetItems(c.value)), items |-> GetItems(c.value),
                             limit |-> q.limit]>>
        ELSE IF Len(GetItems(c.value)) = 0 THEN <<none_found>>
        ELSE <<heading, Len(GetItems(c.value)), GetItems(c.value)>>

autotask_search_tickets ==
    /\ pc = "idle"
    /\ \E company_id \in OptId, status \in Opt({0, 5}), assigned_resource_id \in OptId,
          queue_id \in Opt({1}), limit \in Limits, response_format \in Formats :
          LET q == [company_id |-> company_id, status |-> status,
                    assigned_resource_id |-> assigned_resource_id, queue_id |-> queue_id,
                    limit |-> limit, response_format |-> response_format]
          IN  /\ p' = q
              /\ loc' = [filters |-> search_tickets_filters(q)]
              /\ ToolSend("POST", "Tickets/query",
                          QueryBody(limit, search_filter(search_tickets_filters(q))), "search_wait")
    /\ tool' = "search_tickets"
    /\ UNCHANGED <<env, suspended, lk, ret, resp>>

autotask_search_tickets_return ==
    /\ pc = "search_wait"
    /\ tool = "search_tickets"
    /\ \E o \in QueryOutcomes(PersonItems) :
          /\ resp' = o
          /\ result' = Some(search_result(o, p, "No tickets found matching the search criteria.",
                                          "# Found Ticket(s)"))
    /\ pc' = "done"
    /\ UNCHANGED <<env, suspended, tool, p, loc, lk, ret, wire>>

autotask_search_contacts ==
    /\ pc = "idle"
    /\ \E company_id \in Opt({1}), email \in OptFilterStr, first_name \in OptFilterStr,
          last_name \in OptFilterStr, response_format \in Formats :
          LET q == [company_id |-> company_id, email |-> email, first_name |-> first_name,
                    last_name |-> last_name, limit |-> 20, response_format |-> response_format]
          IN  /\ p' = q
              /\ loc' = [filters |-> search_contacts_filters(q)]
              /\ ToolSend("POST", "Contacts/query",
                          QueryBody(q.limit, search_filter(search_contacts_filters(q))), "search_wait")
    /\ tool' = "search_contacts"
    /\ UNCHANGED <<env, suspended, lk, ret, resp>>

autotask_search_contacts_return ==
    /\ pc = "search_wait"
    /\ tool = "search_contacts"
    /\ \E o \in QueryOutcomes(PersonItems) :
          /\ resp' = o
          /\ result' = Some(search_result(o, p, "No contacts found matching the search criteria.",
                                          "# Found Contact(s)"))
    /\ pc' = "done"
    /\ UNCHANGED <<env, suspended, tool, p, loc, lk, ret, wire>>

autotask_search_resources ==
    /\ pc = "idle"
    /\ \E email \in OptFilterStr, first_name \in OptFilterStr, last_name \in OptFilterStr,
          user_name \in OptFilterStr, active_only \in BOOLEAN, response_format \in Formats :
          LET q == [email |-> email, first_name |-> first_name, last_name |-> last_name,
                    user_name |-> user_name, active_only |-> active_only,
                    limit |-> 20, response_format |-> response_format]
          IN  /\ p' = q
              /\ loc' = [filters |-> search_resources_filters(q)]
              /\ ToolSend("POST", "Resources/query",
                          QueryBody(q.limit, search_filter(search_resources_filters(q))), "search_wait")
    /\ tool' = "search_resources"
    /\ UNCHANGED <<env, suspended, lk, ret, resp>>

autotask_search_resources_return ==
    /\ pc = "search_wait"
    /\ tool = "search_resources"
    /\ \E o \in QueryOutcomes(PersonItems) :
          /\ resp' = o
          /\ result' = Some(search_result(o, p, "No resources found matching the search criteria.",
                                          "# Found Resource(s)"))
    /\ pc' = "done"
    /\ UNCHANGED <<env, suspended, tool, p, loc, lk, ret, wire>>

\* what a create / update tool returns for the upstream's answer
\* ("itemId" in result is False for a JSON array as for an object without the key)
write_result(o, success) ==
    LET c == make_api_request_result(o)
    IN  IF c.raised THEN handle_api_error(c.exc)
        ELSE IF c.value.type = "object" /\ c.value.itemId # None
             THEN <<success, Val(c.value.itemId), c.value>>
        ELSE <<"json", c.value>>

\* update_data: "id" and the fields the ifs add (None: the key is not in the dict)
update_data(q) ==
    [id |-> q.ticket_id,
     title |-> IF TruthyStr(q.title) THEN q.title ELSE None,
     description |-> IF TruthyStr(q.description) THEN q.description ELSE None,
     status |-> q.status,
     priority |-> q.priority,
     assignedResourceID |-> IF TruthyInt(q.assigned_resource_id) THEN q.assigned_resource_id ELSE None,
     queueID |-> IF TruthyInt(q.queue_id) THEN q.queue_id ELSE None]

MutableFields == {"title", "description", "status", "priority", "assignedResourceID", "queueID"}
\* len(update_data) == 1
only_id_never(d) == FALSE
only_id(d) == \A f \in MutableFields : d[f] = None

autotask_update_ticket ==
    /\ pc = "idle"
    /\ \E ticket_id \in Ids, title \in OptShort, description \in OptFilterStr,
          status \in Opt({0, 5}), priority \in Opt({1}), assigned_resource_id \in Opt({1}),
          queue_id \in Opt({1}) :
          LET q == [ticket_id |-> ticket_id, title |-> title, description |-> description,
                    status |-> status, priority |-> priority,
                    assigned_resource_id |-> assigned_resource_id, queue_id |-> queue_id]
          IN  /\ p' = q
              /\ loc' = [update_data |-> update_data(q)]
              /\ IF only_id(update_data(q))
                 THEN /\ result' = Some(<<"Error: ", "No fields specified to update">>)
                      /\ pc' = "done"
                      /\ wire' = wire
                 ELSE ToolSend("PATCH", "Tickets", update_data(q), "update_wait")
    /\ tool' = "update_ticket"
    /\ UNCHANGED <<env, suspended, lk, ret, resp>>

autotask_update_ticket_return ==
    /\ pc = "update_wait"
    /\ \E o \in CreateOutcomes :
          /\ resp' = o
          /\ result' = Some(write_result(o, "Ticket updated successfully!"))
    /\ pc' = "done"
    /\ UNCHANGED <<env, suspended, tool, p, loc, lk, ret, wire>>

(***************************************************************************)
(* autotask_create_ticket.                                                 *)
(***************************************************************************)
\* (id, email, name) arguments that name a contact or a resource
PersonArgs ==
    { <<None, None, None>>, <<Some(1), None, None>>, <<Some(1), Some(<<"a">>), Some(<<"a">>)>>,
      <<None, Some(<<"a">>), None>>, <<None, None, Some(<<"a", " ", "A">>)>>,
      <<None, Some(<<>>), Some(<<"a">>)>> }
CompanyNames == {StrStripWhitespace(o) : o \in {None, Some(<<" ">>), Some(<<"a">>)}}

\* a tool's "except Exception as e: return _handle_api_error(e)" around a resolver call
LookupRaised ==
    /\ ret.raised
    /\ result' = Some(handle_api_error(ret.exc))
    /\ pc' = "done"

autotask_create_ticket ==
    /\ pc = "idle"
    /\ \E company_id \in Opt({1}), company_name \in CompanyNames,
          contact \in PersonArgs, assigned \in PersonArgs, queue_id \in Opt({1}) :
          p' = [title |-> <<"a">>, description |-> <<"a">>,
                company_id |-> company_id, company_name |-> company_name,
                priority |-> 2, status |-> 1, queue_id |-> queue_id, due_date_time |-> None,
                contact_id |-> contact[1], contact_email |-> contact[2], contact_name |-> contact[3],
                assigned_resource_id |-> assigned[1], assigned_resource_email |-> assigned[2],
                assigned_resource_name |-> assigned[3],
                issue_type |-> None, sub_issue_type |-> None]
    /\ tool' = "create_ticket"
    /\ pc' = "ct_company"
    /\ UNCHANGED <<env, suspended, loc, lk, ret, wire, resp, result>>

\* (a variant that looks the company up whenever a name is given)
create_ticket_company_name_first ==
    /\ pc = "ct_company"
    /\ IF TruthyStr(p.company_name)
       THEN /\ lk' = Frame("company", p.company_name, None, None, "ct_company_resolved")
            /\ pc' = "lookup"
            /\ loc' = loc
       ELSE /\ loc' = [company_id |-> p.company_id]
            /\ pc' = "ct_build"
            /\ lk' = lk
    /\ UNCHANGED <<env, suspended, tool, p, ret, wire, resp, result>>

\* lines 533-535: company_id = params.company_id, or the lookup by name
create_ticket_company ==
    /\ pc = "ct_company"
    /\ IF ~TruthyInt(p.company_id) /\ TruthyStr(p.company_name)
       THEN /\ lk' = Frame("company", p.company_name, None, None, "ct_company_resolved")
            /\ pc' = "lookup"
            /\ loc' = loc
       ELSE /\ loc' = [company_id |-> p.company_id]
            /\ pc' = "ct_build"
            /\ lk' = lk
    /\ UNCHANGED <<env, suspended, tool, p, ret, wire, resp, result>>

\* (a variant that goes on without the company)
create_ticket_company_resolved_goes_on ==
    /\ pc = "ct_company_resolved"
    /\ loc' = [company_id |-> IF ret.raised THEN None ELSE ret.value]
    /\ pc' = "ct_build"
    /\ UNCHANGED <<env, suspended, tool, p, lk, ret, wire, resp, result>>

\* lines 535-537: the lookup returned
create_ticket_company_resolved ==
    /\ pc = "ct_company_resolved"
    /\ \/ LookupRaised /\ loc' = loc
       \/ /\ ~ret.raised
          /\ IF ~TruthyInt(ret.value)
             THEN /\ result' = Some(<<"Error: ", "Could not find company '", Val(p.company_name), "'">>)
                  /\ pc' = "done"
                  /\ loc' = loc
             ELSE /\ loc' = [company_id |-> ret.value]
                  /\ pc' = "ct_build"
                  /\ result' = result
    /\ UNCHANGED <<env, suspended, tool, p, lk, ret, wire, resp>>

\* ticket_data as first built (lines 543-549); None: the key is not in the dict
ticket_data_new(q, company_id) ==
    [companyID |-> Val(company_id), title |-> q.title, description |-> q.description,
     priority |-> q.priority, status |-> q.status,
     contactID |-> None, assignedResourceID |-> None, queueID |-> None,
     dueDateTime |-> None, issueType |-> None, subIssueType |-> None]

\* lines 539-559: the company check, ticket_data, the contact id or its lookup
create_ticket_build ==
    /\ pc = "ct_build"
    /\ IF ~TruthyInt(loc.company_id)
       THEN /\ result' = Some(<<"Error: ", "Either company_id or company_name must be provided">>)
            /\ pc' = "done"
            /\ UNCHANGED <<loc, lk>>
       ELSE /\ result' = result
            /\ IF TruthyInt(p.contact_id)
               THEN /\ loc' = [company_id |-> loc.company_id,
                               ticket_data |-> [ticket_data_new(p, loc.company_id)
                                                   EXCEPT !.contactID = p.contact_id]]
                    /\ pc' = "ct_resource"
                    /\ lk' = lk
               ELSE IF TruthyStr(p.contact_email) \/ TruthyStr(p.contact_name)
               THEN /\ loc' = [company_id |-> loc.company_id,
                               ticket_data |-> ticket_data_new(p, loc.company_id)]
                    /\ lk' = Frame("contact", p.contact_name, p.contact_email, loc.company_id,
                                   "ct_contact_resolved")
                    /\ pc' = "lookup"
               ELSE /\ loc' = [company_id |-> loc.company_id,
                               ticket_data |-> ticket_data_new(p, loc.company_id)]
                    /\ pc' = "ct_resource"
                    /\ lk' = lk
    /\ UNCHANGED <<env, suspended, tool, p, ret, wire, resp>>

\* (a variant that gives up when the contact is not found)
create_ticket_contact_resolved_aborts ==
    /\ pc = "ct_contact_resolved"
    /\ \/ LookupRaised /\ loc' = loc
       \/ /\ ~ret.raised
          /\ IF ~TruthyInt(ret.value)
             THEN /\ result' = Some(<<"Error: ", "Could not find contact">>)
                  /\ pc' = "done"
                  /\ loc' = loc
             ELSE /\ loc' = [loc EXCEPT !.ticket_data.contactID = ret.value]
                  /\ pc' = "ct_resource"
                  /\ result' = result
    /\ UNCHANGED <<env, suspended, tool, p, lk, ret, wire, resp>>

\* lines 560-561
create_ticket_contact_resolved ==
    /\ pc = "ct_contact_resolved"
    /\ \/ LookupRaised /\ loc' = loc
       \/ /\ ~ret.raised
          /\ loc' = IF TruthyInt(ret.value)
                    THEN [loc EXCEPT !.ticket_data.contactID = ret.value]
                    ELSE loc
          /\ pc' = "ct_resource"
          /\ result' = result
    /\ UNCHANGED <<env, suspended, tool, p, lk, ret, wire, resp>>

\* lines 563-570: the assigned resource id or its lookup
create_ticket_resource ==
    /\ pc = "ct_resource"
    /\ IF TruthyInt(p.assigned_resource_id)
       THEN /\ loc' = [loc EXCEPT !.ticket_data.assignedResourceID = p.assigned_resource_id]
            /\ pc' = "ct_post"
            /\ lk' = lk
       ELSE IF TruthyStr(p.assigned_resource_name) \/ TruthyStr(p.assigned_resource_email)
       THEN /\ lk' = Frame("resource", p.assigned_resource_name, p.assigned_resource_email, None,
                           "ct_resource_resolved")
            /\ pc' = "lookup"
            /\ loc' = loc
       ELSE /\ pc' = "ct_post"
            /\ UNCHANGED <<loc, lk>>
    /\ UNCHANGED <<env, suspended, tool, p, ret, wire, resp, result>>

\* lines 571-572
create_ticket_resource_resolved ==
    /\ pc = "ct_resource_resolved"
    /\ \/ LookupRaised /\ loc' = loc
       \/ /\ ~ret.raised
          /\ loc' = IF TruthyInt(ret.value)
                    THEN [loc EXCEPT !.ticket_data.assignedResourceID = ret.value]
                    ELSE loc
          /\ pc' = "ct_post"
          /\ result' = result
    /\ UNCHANGED <<env, suspended, tool, p, lk, ret, wire, resp>>

\* lines 574-582: the optional fields
ticket_data_optional(d, q) ==
    [d EXCEPT !.queueID = IF TruthyInt(q.queue_id) THEN q.queue_id ELSE None,
              !.dueDateTime = IF TruthyStr(q.due_date_time) THEN q.due_date_time ELSE None,
              !.issueType = IF TruthyInt(q.issue_type) THEN q.issue_type ELSE None,
              !.subIssueType = IF TruthyInt(q.sub_issue_type) THEN q.sub_issue_type ELSE None]

\* lines 574-584: the POST
create_ticket_post ==
    /\ pc = "ct_post"
    /\ loc' = [loc EXCEPT !.ticket_data = ticket_data_optional(loc.ticket_data, p)]
    /\ ToolSend("POST", "Tickets", ticket_data_optional(loc.ticket_data, p), "ct_wait")
    /\ UNCHANGED <<env, suspended, tool, p, lk, ret, resp>>

\* (a variant that posts the ticket again when the POST failed)
create_ticket_return_posts_again ==
    /\ pc = "ct_wait"
    /\ \E o \in CreateOutcomes :
          /\ resp' = o
          /\ IF o.kind # "json" /\ Len(wire) < 5
             THEN /\ wire' = Append(wire, wire[Len(wire)])
                  /\ UNCHANGED <<result, pc>>
             ELSE /\ result' = Some(write_result(o, "Ticket created successfully!"))
                  /\ pc' = "done"
                  /\ wire' = wire
    /\ UNCHANGED <<env, suspended, tool, p, loc, lk, ret>>

\* lines 586-592
create_ticket_return ==
    /\ pc = "ct_wait"
    /\ \E o \in CreateOutcomes :
          /\ resp' = o
          /\ result' = Some(write_result(o, "Ticket created successfully!"))
    /\ pc' = "done"
    /\ UNCHANGED <<env, suspended, tool, p, loc, lk, ret, wire>>

(***************************************************************************)
(* autotask_create_time_entry.  Hours are in hundredths of an hour.        *)
(***************************************************************************)
HoursSamples == {0 - 100, 0, 150, 2400, 2401}

\* the fields of CreateTimeEntryInput that constrain their value: ticket_id (required,
\* gt=0), hours_worked (gt=0), hours_to_bill (gt=0); a key the model does not declare
\* (task_id) is ignored
time_entry_input_valid(raw) ==
    /\ raw.ticket_id # None /\ Val(raw.ticket_id) > 0
    /\ raw.hours_worked > 0
    /\ raw.hours_to_bill # None => Val(raw.hours_to_bill) > 0

autotask_create_time_entry ==
    /\ pc = "idle"
    /\ \E ticket_id \in Opt({0, 1}), task_id \in Opt({1}), resource \in PersonArgs,
          hours_worked \in HoursSamples, hours_to_bill \in Opt({0, 100}),
          date_worked \in Opt({<<"a">>}) :
          LET raw == [ticket_id |-> ticket_id, task_id |-> task_id,
                      resource_id |-> resource[1], resource_email |-> resource[2],
                      resource_name |-> resource[3],
                      hours_worked |-> hours_worked, hours_to_bill |-> hours_to_bill,
                      date_worked |-> date_worked, summary_notes |-> None,
                      internal_notes |-> None, time_entry_type |-> 1, offset_hours |-> 0]
          IN  /\ p' = raw
              /\ IF time_entry_input_valid(raw)
                 THEN /\ pc' = "te_resource"
                      /\ result' = result
                 ELSE /\ pc' = "done"
                      /\ result' = Some(<<"ValidationError">>)
    /\ tool' = "create_time_entry"
    /\ UNCHANGED <<env, suspended, loc, lk, ret, wire, resp>>

\* lines 1079-1084: resource_id = params.resource_id, or the lookup by name or email
create_time_entry_resource ==
    /\ pc = "te_resource"
    /\ IF ~TruthyInt(p.resource_id) /\ (TruthyStr(p.resource_name) \/ TruthyStr(p.resource_email))
       THEN /\ lk' = Frame("resource", p.resource_name, p.resource_email, None, "te_resource_resolved")
            /\ pc' = "lookup"
            /\ loc' = loc
       ELSE /\ loc' = [resource_id |-> p.resource_id]
            /\ pc' = "te_build"
            /\ lk' = lk
    /\ UNCHANGED <<env, suspended, tool, p, ret, wire, resp, result>>

\* lines 1085-1087: search_term = params.resource_email or params.resource_name
create_time_entry_resource_resolved ==
    /\ pc = "te_resource_resolved"
    /\ \/ LookupRaised /\ loc' = loc
       \/ /\ ~ret.raised
          /\ IF ~TruthyInt(ret.value)
             THEN /\ result' = Some(<<"Error: ", "Could not find resource '",
                                      IF TruthyStr(p.resource_email) THEN Val(p.resource_email)
                                      ELSE Val(p.resource_name), "'">>)
                  /\ pc' = "done"
                  /\ loc' = loc
             ELSE /\ loc' = [resource_id |-> ret.value]
                  /\ pc' = "te_build"
                  /\ result' = result
    /\ UNCHANGED <<env, suspended, tool, p, lk, ret, wire, resp>>

\* (a variant that always bills the hours worked)
time_entry_data_bills_worked(q, resource_id) ==
    [ticketID |-> Val(q.ticket_id),
     resourceID |-> Val(resource_id),
     dateWorked |-> IF TruthyStr(q.date_worked) THEN Val(q.date_worked) ELSE <<"today">>,
     hoursWorked |-> q.hours_worked,
     timeEntryType |-> q.time_entry_type,
     offsetHours |-> q.offset_hours,
     summaryNotes |-> IF TruthyStr(q.summary_notes) THEN q.summary_notes ELSE None,
     internalNotes |-> IF TruthyStr(q.internal_notes) THEN q.internal_notes ELSE None,
     hoursToBill |-> q.hours_worked]

\* lines 1092-1118: time_entry_data; "today" stands for date.today().strftime("%Y-%m-%d")
time_entry_data(q, resource_id) ==
    [ticketID |-> Val(q.ticket_id),
     resourceID |-> Val(resource_id),
     dateWorked |-> IF TruthyStr(q.date_worked) THEN Val(q.date_worked) ELSE <<"today">>,
     hoursWorked |-> q.hours_worked,
     timeEntryType |-> q.time_entry_type,
     offsetHours |-> q.offset_hours,
     summaryNotes |-> IF TruthyStr(q.summary_notes) THEN q.summary_notes ELSE None,
     internalNotes |-> IF TruthyStr(q.internal_notes) THEN q.internal_notes ELSE None,
     hoursToBill |-> IF q.hours_to_bill # None THEN Val(q.hours_to_bill) ELSE q.hours_worked]

\* lines 1089-1120: the resource check, time_entry_data and the POST
create_time_entry_post ==
    /\ pc = "te_build"
    /\ IF ~TruthyInt(loc.resource_id)
       THEN /\ result' = Some(<<"Error: ",
                                "Either resource_id, resource_name, or resource_email must be provided">>)
            /\ pc' = "done"
            /\ UNCHANGED <<loc, wire>>
       ELSE /\ loc' = [resource_id |-> loc.resource_id,
                       time_entry_data |-> time_entry_data(p, loc.resource_id)]
            /\ ToolSend("POST", "TimeEntries", time_entry_data(p, loc.resource_id), "te_wait")
    /\ UNCHANGED <<env, suspended, tool, p, lk, ret, resp>>

\* lines 1122-1137
create_time_entry_return ==
    /\ pc = "te_wait"
    /\ \E o \in CreateOutcomes :
          /\ resp' = o
          /\ result' = Some(write_result(o, "Time entry created successfully!"))
    /\ pc' = "done"
    /\ UNCHANGED <<env, suspended, tool, p, loc, lk, ret, wire>>

(***************************************************************************)
(* autotask_get_ticket, autotask_get_company, autotask_search_companies,   *)
(* autotask_add_ticket_note.                                               *)
(***************************************************************************)
\* a 2xx JSON body for a GET of one entity: with or without "item"
JsonItem(item) == [type |-> "object", item |-> item]
GetOutcomes ==
    Failures \cup {[kind |-> "json", body |-> b] :
                      b \in {JsonArray, JsonItem(None), JsonItem(Some([id |-> 1]))}}

\* f"Tickets/{params.ticket_id}", f"Companies/{params.company_id}"
GetIds == {1, 2}
TicketPath(id) == IF id = 1 THEN "Tickets/1" ELSE "Tickets/2"
CompanyPath(id) == IF id = 1 THEN "Companies/1" ELSE "Companies/2"

\* what a get tool returns: result.get("item", {}) raises AttributeError on a non-object
get_result(o, q, heading) ==
    LET c == make_api_request_result(o)
    IN  IF c.raised THEN handle_api_error(c.exc)
        ELSE IF c.value.type # "object" THEN handle_api_error([exc |-> "AttributeError"])
        ELSE IF q.response_format = "json" THEN <<"json", c.value.item>>
        ELSE <<heading, c.value.item>>

autotask_get_ticket ==
    /\ pc = "idle"
    /\ \E ticket_id \in GetIds, response_format \in Formats :
          /\ p' = [ticket_id |-> ticket_id, response_format |-> response_format]
          /\ ToolSend("GET", TicketPath(ticket_id), NoBody, "get_wait")
    /\ tool' = "get_ticket"
    /\ UNCHANGED <<env, suspended, loc, lk, ret, resp>>

autotask_get_ticket_return ==
    /\ pc = "get_wait"
    /\ tool = "get_ticket"
    /\ \E o \in GetOutcomes :
          /\ resp' = o
          /\ result' = Some(get_result(o, p, "## Ticket"))
    /\ pc' = "done"
    /\ UNCHANGED <<env, suspended, tool, p, loc, lk, ret, wire>>

autotask_get_company ==
    /\ pc = "idle"
    /\ \E company_id \in GetIds, response_format \in Formats :
          /\ p' = [company_id |-> company_id, response_format |-> response_format]
          /\ ToolSend("GET", CompanyPath(company_id), NoBody, "get_wait")
    /\ tool' = "get_company"
    /\ UNCHANGED <<env, suspended, loc, lk, ret, resp>>

autotask_get_company_return ==
    /\ pc = "get_wait"
    /\ tool = "get_company"
    /\ \E o \in GetOutcomes :
          /\ resp' = o
          /\ result' = Some(get_result(o, p, "## Company"))
    /\ pc' = "done"
    /\ UNCHANGED <<env, suspended, tool, p, loc, lk, ret, wire>>

\* lines 705-712: the filter of autotask_search_companies
search_companies_filter_as_given(q) ==
    IF q.company_name = None THEN <<>>
    ELSE <<Cond("companyName", "contains", Val(q.company_name))>>
search_companies_filter(q) ==
    IF TruthyStr(q.company_name)
    THEN <<Cond("companyName", "contains", Val(q.company_name))>>
    ELSE <<Exists>>

autotask_search_companies ==
    /\ pc = "idle"
    /\ \E company_name \in OptFilterStr, response_format \in Formats :
          LET q == [company_name |-> company_name, limit |-> 20,
                    response_format |-> response_format]
          IN  /\ p' = q
              /\ ToolSend("POST", "Companies/query",
                          QueryBody(q.limit, search_companies_filter(q)), "search_wait")
    /\ tool' = "search_companies"
    /\ UNCHANGED <<env, suspended, loc, lk, ret, resp>>

autotask_search_companies_return ==
    /\ pc = "search_wait"
    /\ tool = "search_companies"
    /\ \E o \in QueryOutcomes(CompanyItems) :
          /\ resp' = o
          /\ result' = Some(search_result(o, p, "No companies found matching the search criteria.",
                                          "# Found Company(ies)"))
    /\ pc' = "done"
    /\ UNCHANGED <<env, suspended, tool, p, loc, lk, ret, wire>>

\* lines 1007-1013
note_data(q) ==
    [ticketID |-> q.ticket_id, title |-> q.title, description |-> q.description,
     noteType |-> q.note_type, publish |-> q.publish]

autotask_add_ticket_note ==
    /\ pc = "idle"
    /\ \E ticket_id \in Ids, publish \in {1, 2} :
          LET q == [ticket_id |-> ticket_id, title |-> <<"a">>, description |-> <<"a">>,
                    note_type |-> 1, publish |-> publish]
          IN  /\ p' = q
              /\ ToolSend("POST", "TicketNotes", note_data(q), "note_wait")
    /\ tool' = "add_ticket_note"
    /\ UNCHANGED <<env, suspended, loc, lk, ret, resp>>

autotask_add_ticket_note_return ==
    /\ pc = "note_wait"
    /\ \E o \in CreateOutcomes :
          /\ resp' = o
          /\ result' = Some(write_result(o, "Note added to ticket successfully!"))
    /\ pc' = "done"
    /\ UNCHANGED <<env, suspended, tool, p, loc, lk, ret, wire>>

Tools ==
    \/ autotask_get_ticket
    \/ autotask_get_ticket_return
    \/ autotask_get_company
    \/ autotask_get_company_return
    \/ autotask_search_companies
    \/ autotask_search_companies_return
    \/ autotask_add_ticket_note
    \/ autotask_add_ticket_note_return
    \/ autotask_search_tickets
    \/ autotask_search_tickets_return
    \/ autotask_search_contacts
    \/ autotask_search_contacts_return
    \/ autotask_search_resources
    \/ autotask_search_resources_return
    \/ autotask_update_ticket
    \/ autotask_update_ticket_return
    \/ autotask_create_ticket
    \/ create_ticket_company
    \/ create_ticket_company_resolved
    \/ create_ticket_build
    \/ create_ticket_contact_resolved
    \/ create_ticket_resource
    \/ create_ticket_resource_resolved
    \/ create_ticket_post
    \/ create_ticket_return
    \/ autotask_create_time_entry
    \/ create_time_entry_resource
    \/ create_time_entry_resource_resolved
    \/ create_time_entry_post
    \/ create_time_entry_return

Next ==
    \/ Tools
    \/ Lookups

Spec == Init /\ [][Next]_vars

(***************************************************************************)
(* Two invocations served by one event loop.  The variables pc .. result   *)
(* are the frame of the coroutine that is running (its parameters and      *)
(* locals, the requests it has made and what it returns); suspended is the *)
(* frame of the other coroutine, parked at an await or not yet started.    *)
(* env, the module-level configuration read at import, is the only state   *)
(* both see, and no function assigns it.                                   *)
(***************************************************************************)
Context ==
    [pc |-> pc, tool |-> tool, p |-> p, loc |-> loc, lk |-> lk,
     ret |-> ret, wire |-> wire, resp |-> resp, result |-> result]

\* (a variant in which the parameter object is kept in a module-level variable)
Resume_shared_params(c) ==
    /\ pc' = c.pc /\ tool' = c.tool /\ p' = p /\ loc' = c.loc /\ lk' = c.lk
    /\ ret' = c.ret /\ wire' = c.wire /\ resp' = c.resp /\ result' = c.result

\* the event loop resumes a coroutine: its parameters and locals are its own
Resume(c) ==
    /\ pc' = c.pc /\ tool' = c.tool /\ p' = c.p /\ loc' = c.loc /\ lk' = c.lk
    /\ ret' = c.ret /\ wire' = c.wire /\ resp' = c.resp /\ result' = c.result

\* a coroutine gives up control only at an await (or before it starts, or when it is over)
AwaitPoints ==
    {"idle", "done", "req_wait", "lookup_wait", "search_wait", "update_wait", "ct_wait",
     "te_wait", "get_wait", "note_wait"}

\* the running coroutine is parked at its await and the other one runs
switch ==
    /\ pc \in AwaitPoints
    /\ suspended' = Context
    /\ Resume(suspended)
    /\ UNCHANGED env

NextConcurrent ==
    \/ switch
    \/ autotask_get_ticket
    \/ autotask_get_ticket_return
    \/ autotask_get_company
    \/ autotask_get_company_return
    \/ autotask_add_ticket_note
    \/ autotask_add_ticket_note_return

SpecConcurrent == Init /\ [][NextConcurrent]_vars

(***************************************************************************)
(* Properties.                                                             *)
(***************************************************************************)
\* the outcome of the request was a failure of the underlying request
FailedRequest ==
    \/ resp.kind \in {"connect_error", "timeout", "http_status", "invalid_json"}
    \/ resp.kind = "json" /\ resp.body.type # "object"
\* the upstream answered a query with a list of records
Listed == resp.kind = "json" /\ resp.body.type = "object" /\ resp.body.items # None
ListedItems == Val(resp.body.items)

NoSpaceIn(s) == \A i \in 1..Len(s) : ~IsSpace(s[i])
AllSpace(s) == \A i \in 1..Len(s) : IsSpace(s[i])
SameLetter(c, d) == c = d \/ {c, d} = {"a", "A"}
EqualsIgnoringCase(s, t) == Len(s) = Len(t) /\ \A i \in 1..Len(s) : SameLetter(s[i], t[i])
\* positions of the listed companies whose name is the queried name up to case
ExactMatches(list, q) ==
    {i \in 1..Len(list) :
        list[i].companyName # None /\ EqualsIgnoringCase(Val(list[i].companyName), q)}

\* C2: resolveCompany returns the id of the first listed company whose name equals the
\* queried name ignoring case, wherever it stands in the list; the id of the first listed
\* company when no name matches exactly; none when the list is empty.
C2_ResolveCompany ==
    (tool = "lookup_company_id" /\ pc = "done" /\ Listed) =>
        /\ ~ret.raised
        /\ IF Len(ListedItems) = 0 THEN ret.value = None
           ELSE IF ExactMatches(ListedItems, Val(lk.name)) # {}
                THEN ret.value = ListedItems[Min(ExactMatches(ListedItems, Val(lk.name)))].id
           ELSE ret.value = ListedItems[1].id

\* an exact match that is not the first element is returned
C2_Witness ==
    /\ tool = "lookup_company_id" /\ pc = "done" /\ Listed
    /\ Len(ListedItems) >= 2
    /\ 1 \notin ExactMatches(ListedItems, Val(lk.name))
    /\ 2 \in ExactMatches(ListedItems, Val(lk.name))
    /\ ret.value = ListedItems[2].id
    /\ ret.value # ListedItems[1].id

\* n = first token, whitespace run n[k..m], rest
SplitsAt(n, k, m) ==
    /\ 2 <= k /\ k <= m /\ m < Len(n)
    /\ NoSpaceIn(SubSeq(n, 1, k - 1))
    /\ AllSpace(SubSeq(n, k, m))
    /\ ~IsSpace(n[m + 1])
SingleToken(n) == Len(n) > 0 /\ NoSpaceIn(n)
AndOfContains(first, rest) ==
    <<Group("and", <<Cond("firstName", "contains", first), Cond("lastName", "contains", rest)>>)>>
OrOfContains(token) ==
    <<Group("or", <<Cond("firstName", "contains", token), Cond("lastName", "contains", token)>>)>>
SentFilter == wire[1].data.filter
ResourceQuerySent ==
    /\ tool = "lookup_resource_id" /\ Len(wire) >= 1
    /\ wire[1].method = "POST" /\ wire[1].endpoint = "Resources/query"

\* C3 as stated, "given" read as "passed": a passed email decides the filter alone.
C3_Original ==
    ResourceQuerySent => (lk.email # None => SentFilter = <<Cond("email", "eq", Val(lk.email))>>)

\* C3 (amended): resolveResource with a non-empty email queries "email eq email" and ignores
\* the name; otherwise, with a non-empty name, "firstName contains first AND lastName
\* contains rest" when the name splits on its first whitespace run, and "firstName contains
\* token OR lastName contains token" when it is a single token.  It asks for at most 5
\* records and returns the id of the first, or none when none is listed.
C3_ResolveResource ==
    /\ ResourceQuerySent =>
          /\ Len(wire) = 1 /\ wire[1].data.MaxRecords = 5
          /\ TruthyStr(lk.email) => SentFilter = <<Cond("email", "eq", Val(lk.email))>>
          /\ ~TruthyStr(lk.email) =>
                /\ TruthyStr(lk.name)
                /\ \/ SingleToken(Val(lk.name))
                   \/ \E k, m \in 1..Len(Val(lk.name)) : SplitsAt(Val(lk.name), k, m)
                /\ SingleToken(Val(lk.name)) => SentFilter = OrOfContains(Val(lk.name))
                /\ \A k, m \in 1..Len(Val(lk.name)) :
                      SplitsAt(Val(lk.name), k, m) =>
                          SentFilter = AndOfContains(SubSeq(Val(lk.name), 1, k - 1),
                                                     SubSeq(Val(lk.name), m + 1, Len(Val(lk.name))))
    /\ (tool = "lookup_resource_id" /\ pc = "done" /\ Listed) =>
          ret = Returned(IF Len(ListedItems) = 0 THEN None ELSE ListedItems[1].id)

\* a two-part name was split and the first listed id returned
C3_Witness ==
    /\ ResourceQuerySent /\ pc = "done" /\ Listed /\ Len(ListedItems) = 2
    /\ ~TruthyStr(lk.email)
    /\ Val(lk.name) = <<"a", " ", "A">>
    /\ SentFilter = AndOfContains(<<"a">>, <<"A">>)
    /\ ret.value = ListedItems[1].id /\ ret.value # ListedItems[2].id

IsCompanyCond(c) == "field" \in DOMAIN c /\ c.field = "companyID"
ContactQuerySent ==
    /\ tool = "lookup_contact_id" /\ Len(wire) >= 1
    /\ wire[1].method = "POST" /\ wire[1].endpoint = "Contacts/query"

\* C4: resolveContact with a companyId sends "companyID eq companyId" ANDed with every
\* email/name condition: in one AND group after them when there is one, as the only
\* condition when there is none; without a companyId the filter has no companyID condition.
C4_ResolveContactCompany ==
    /\ ContactQuerySent /\ lk.company_id # None =>
          IF TruthyStr(lk.email) \/ TruthyStr(lk.name)
          THEN /\ Len(SentFilter) = 1
               /\ DOMAIN SentFilter[1] = {"op", "items"}
               /\ SentFilter[1].op = "and"
               /\ SentFilter[1].items =
                     lookup_contact_filters(lk.email, lk.name, None)
                        \o <<Cond("companyID", "eq", Val(lk.company_id))>>
          ELSE SentFilter = <<Cond("companyID", "eq", Val(lk.company_id))>>
    /\ ContactQuerySent /\ lk.company_id = None =>
          /\ \A i \in 1..Len(SentFilter) : ~IsCompanyCond(SentFilter[i])
          /\ \A i \in 1..Len(SentFilter) :
                "items" \in DOMAIN SentFilter[i] =>
                    \A j \in 1..Len(SentFilter[i].items) : ~IsCompanyCond(SentFilter[i].items[j])
    /\ (tool = "lookup_contact_id" /\ pc \in {"lookup_wait", "done"}
           /\ lk.company_id # None /\ validate_config.ok) => ContactQuerySent

\* a companyId with a name: the AND group holds the name condition and the company condition
C4_Witness ==
    /\ ContactQuerySent /\ lk.company_id = Some(1)
    /\ ~TruthyStr(lk.email) /\ lk.name = Some(<<"a">>)
    /\ SentFilter = <<Group("and", OrOfContains(<<"a">>) \o <<Cond("companyID", "eq", 1)>>)>>

\* C5: a resolver never raises: whatever fails in the request (configuration, connection,
\* timeout, non-2xx, malformed body) it returns none, as it does when nothing matches.
C5_ResolversNeverRaise ==
    (tool \in {"lookup_company_id", "lookup_resource_id", "lookup_contact_id"} /\ pc = "done") =>
        /\ ~ret.raised
        /\ FailedRequest => ret.value = None
        /\ ~validate_config.ok => ret.value = None /\ wire = <<>>
        /\ (Listed /\ Len(ListedItems) = 0) => ret.value = None

\* a non-2xx answer to a company lookup ended in none
C5_Witness ==
    /\ tool = "lookup_company_id" /\ pc = "done"
    /\ resp.kind = "http_status" /\ resp.status = 500
    /\ ret = Returned(None)

(***************************************************************************)
(* Properties of the tool operations.                                      *)
(***************************************************************************)
SearchTools == {"search_tickets", "search_contacts", "search_resources"}
Count(b) == IF b THEN 1 ELSE 0
\* how many filter conditions the caller's arguments call for
SuppliedConditions ==
    CASE tool = "search_tickets" ->
            Count(p.company_id # None) + Count(p.status # None)
            + Count(p.assigned_resource_id # None) + Count(p.queue_id # None)
      [] tool = "search_contacts" ->
            Count(p.company_id # None) + Count(TruthyStr(p.email))
            + Count(TruthyStr(p.first_name)) + Count(TruthyStr(p.last_name))
      [] tool = "search_resources" ->
            Count(TruthyStr(p.email)) + Count(TruthyStr(p.first_name))
            + Count(TruthyStr(p.last_name)) + Count(TruthyStr(p.user_name)) + Count(p.active_only)

\* C1: the filter a search tool sends is the always-true condition for 0 conditions, the
\* bare one-element list for 1 condition, and one AND group holding all the conditions in
\* the order they were built for 2 or more.
C1_SearchFilterShape ==
    (tool \in SearchTools /\ validate_config.ok) =>
        /\ Len(wire) = 1
        /\ wire[1].method = "POST"
        /\ Len(loc.filters) = SuppliedConditions
        /\ Len(loc.filters) = 0 => SentFilter = <<[op |-> "exist", field |-> "id"]>>
        /\ Len(loc.filters) = 1 =>
              /\ SentFilter = loc.filters
              /\ "items" \notin DOMAIN SentFilter[1]
        /\ Len(loc.filters) >= 2 => SentFilter = <<[op |-> "and", items |-> loc.filters]>>

\* the three shapes are all sent: here three conditions in one AND group
C1_Witness ==
    /\ tool = "search_contacts" /\ Len(wire) = 1
    /\ Len(loc.filters) = 3
    /\ SentFilter = <<Group("and", <<Cond("companyID", "eq", 1),
                                     Cond("emailAddress", "contains", <<"a">>),
                                     Cond("lastName", "contains", <<"a">>)>>)>>

NoPostTo(endpoint) ==
    \A i \in 1..Len(wire) : ~(wire[i].method = "POST" /\ wire[i].endpoint = endpoint)
\* the resolver the tool called for a required id has returned none and the tool has resumed
CompanyMissed ==
    /\ tool = "create_ticket" /\ lk.fn = "company"
    /\ pc \notin {"lookup", "lookup_wait", "ct_company_resolved"}
    /\ ~TruthyInt(ret.value)
ResourceMissed ==
    /\ tool = "create_time_entry" /\ lk.fn = "resource"
    /\ pc \notin {"lookup", "lookup_wait", "te_resource_resolved"}
    /\ ~TruthyInt(ret.value)

\* C6: when the company lookup of create ticket, or the resource lookup of create time
\* entry, returns none, the tool returns "could not find" naming the company / the search
\* term (the email, else the name) and sends no POST to Tickets / TimeEntries.
C6_ResolutionMissAborts ==
    /\ CompanyMissed =>
          /\ pc = "done"
          /\ result = Some(<<"Error: ", "Could not find company '", Val(p.company_name), "'">>)
          /\ NoPostTo("Tickets")
    /\ ResourceMissed =>
          /\ pc = "done"
          /\ result = Some(<<"Error: ", "Could not find resource '",
                             IF TruthyStr(p.resource_email) THEN Val(p.resource_email)
                             ELSE Val(p.resource_name), "'">>)
          /\ NoPostTo("TimeEntries")

\* the company query was answered with an empty list and create ticket stopped there
C6_Witness ==
    /\ CompanyMissed /\ pc = "done"
    /\ Listed /\ Len(ListedItems) = 0
    /\ Len(wire) = 1 /\ wire[1].endpoint = "Companies/query"
    /\ p.company_id = None /\ p.company_name = Some(<<"a">>)

NoMutableField ==
    /\ p.title = None /\ p.description = None /\ p.status = None
    /\ p.priority = None /\ p.assigned_resource_id = None /\ p.queue_id = None

\* C7: update ticket with a ticket id and no mutable field returns the "no fields to
\* update" error and sends no request at all.
C7_UpdateNothing ==
    (tool = "update_ticket" /\ NoMutableField) =>
        /\ pc = "done"
        /\ result = Some(<<"Error: ", "No fields specified to update">>)
        /\ wire = <<>>

C7_Witness ==
    /\ tool = "update_ticket" /\ NoMutableField /\ validate_config.ok
    /\ pc = "done" /\ wire = <<>>
    /\ result = Some(<<"Error: ", "No fields specified to update">>)

\* C8: update ticket with at least one mutable field sends exactly one PATCH to "Tickets"
\* whose body holds the ticket id and exactly the supplied fields with the supplied values:
\* none added, none left out.
C8_UpdateBodyIsSupplied ==
    (tool = "update_ticket" /\ ~NoMutableField /\ validate_config.ok) =>
        /\ Len(wire) = 1
        /\ wire[1].method = "PATCH" /\ wire[1].endpoint = "Tickets"
        /\ wire[1].data.id = p.ticket_id
        /\ wire[1].data.title = p.title
        /\ wire[1].data.description = p.description
        /\ wire[1].data.status = p.status
        /\ wire[1].data.priority = p.priority
        /\ wire[1].data.assignedResourceID = p.assigned_resource_id
        /\ wire[1].data.queueID = p.queue_id

Rejected == pc = "done" /\ result = Some(<<"ValidationError">>) /\ wire = <<>>
OtherFieldsValid ==
    /\ p.ticket_id # None /\ Val(p.ticket_id) > 0
    /\ p.hours_to_bill # None => Val(p.hours_to_bill) > 0

\* C9: create time entry accepts hours_worked exactly when 0 < hours_worked <= 24: other
\* values are rejected as a validation error before any request, 24 is accepted.
C9_HoursWorkedBounds ==
    tool = "create_time_entry" =>
        /\ (p.hours_worked <= 0 \/ p.hours_worked > 2400) => Rejected
        /\ (0 < p.hours_worked /\ p.hours_worked <= 2400 /\ OtherFieldsValid) => ~Rejected

\* C10: create time entry requires exactly one of ticket id and task id: both set, or
\* neither set, is rejected as a validation error before any request; exactly one passes.
C10_TicketXorTask ==
    tool = "create_time_entry" =>
        /\ (p.ticket_id # None /\ p.task_id # None) => Rejected
        /\ (p.ticket_id = None /\ p.task_id = None) => Rejected
        /\ ((p.ticket_id # None) # (p.task_id # None)
               /\ (p.ticket_id # None => Val(p.ticket_id) > 0)
               /\ p.hours_worked > 0
               /\ (p.hours_to_bill # None => Val(p.hours_to_bill) > 0)) => ~Rejected

(***************************************************************************)
(* Properties of the HTTP adapter.                                         *)
(***************************************************************************)
AdapterCalled == tool = "make_api_request"

\* C12 (as stated): one call of the adapter with a verb in {GET, POST, PATCH, PUT, DELETE}
\* and valid configuration performs exactly one network call, failed or not.
C12_Original ==
    (AdapterCalled /\ validate_config.ok
        /\ p.method \in {"GET", "POST", "PATCH", "PUT", "DELETE"}) => Len(wire) = 1

\* C12 (amended): with valid configuration and a verb the adapter supports (GET, POST,
\* PATCH, DELETE) one call performs exactly one network call, and no call, whatever it
\* ends in, ever performs two.
C12_OneNetworkCall ==
    AdapterCalled =>
        /\ Len(wire) <= 1
        /\ (validate_config.ok /\ Upper(p.method) \in {"GET", "POST", "PATCH", "DELETE"})
              => Len(wire) = 1

\* a request that failed and was not issued again
C12_Witness ==
    /\ AdapterCalled /\ pc = "done"
    /\ resp.kind = "timeout" /\ ret.raised
    /\ Len(wire) = 1 /\ wire[1].method = "DELETE"

\* C16: a verb outside the supported set is rejected with a local error and nothing is
\* sent, for every path and body.
C16_UnsupportedVerb ==
    (AdapterCalled /\ Upper(p.method) \notin {"GET", "POST", "PATCH", "DELETE"}) =>
        /\ pc = "done"
        /\ wire = <<>>
        /\ ret.raised /\ ret.exc.exc = "ValueError"
        /\ validate_config.ok => ret.exc.msg = <<"Unsupported HTTP method: ", p.method>>

C16_Witness ==
    /\ AdapterCalled /\ validate_config.ok /\ pc = "done"
    /\ p.method = "HEAD" /\ p.endpoint = "Companies/query" /\ p.data # NoBody
    /\ wire = <<>> /\ ret.raised

(***************************************************************************)
(* Properties of the error contract of the tools.                          *)
(***************************************************************************)
ToolNames ==
    {"get_ticket", "search_tickets", "create_ticket", "update_ticket", "add_ticket_note",
     "create_time_entry", "search_companies", "get_company", "search_contacts",
     "search_resources"}
IsError(r) == r # None /\ Len(Val(r)) >= 1 /\ Val(r)[1] = "Error: "
\* the input did not pass the validation of the parameter object: the tool body never ran
InputRejected == result = Some(<<"ValidationError">>)
\* the last request of the invocation did not produce a 2xx response with a JSON body
LastRequestFailed == resp.kind \in {"connect_error", "timeout", "http_status", "invalid_json"}

\* C13: every tool invocation ends by returning a string, and when its request failed
\* (missing configuration, connection failure, timeout, non-2xx response, body that is
\* not JSON) that string starts with "Error: ".
C13_ToolsReturnErrorStrings ==
    (tool \in ToolNames /\ pc = "done") =>
        /\ result # None
        /\ (~validate_config.ok /\ ~InputRejected) => IsError(result)
        /\ LastRequestFailed => IsError(result)

\* all ten tools end in an error string: here a search whose response body is not JSON
C13_Witness ==
    /\ tool = "search_companies" /\ pc = "done"
    /\ resp.kind = "invalid_json" /\ Len(wire) = 1
    /\ IsError(result)

\* the invocation is over and its last request was the tool's own, not a resolver's
OwnRequestAnswered ==
    /\ tool \in ToolNames /\ pc = "done" /\ Len(wire) >= 1
    /\ tool = "create_ticket" => wire[Len(wire)].endpoint = "Tickets"
    /\ tool = "create_time_entry" => wire[Len(wire)].endpoint = "TimeEntries"
\* the string a tool returns for a failure of its own request
ResultFor(failure) == handle_api_error(make_api_request_result(failure).exc)

\* C14: for every non-2xx response the returned error carries the numeric status code of
\* the response and the response body.
C14_StatusAndBodyCarried ==
    (OwnRequestAnswered /\ resp.kind = "http_status") =>
        LET r == Val(result)
        IN  /\ IsError(result)
            /\ \E i \in 2..Len(r) : r[i - 1] = "API request failed with status " /\ r[i] = resp.status
            /\ \E i \in 2..Len(r) : r[i - 1] = "Bad request. " /\ r[i] = resp.body

\* C19: the result returned for a timeout is returned for no other failure: not for a
\* connection failure, not for any non-2xx response, not for a body that is not JSON.
C19_TimeoutDistinguishable ==
    (OwnRequestAnswered /\ LastRequestFailed) =>
        (result = Some(ResultFor([kind |-> "timeout"])) <=> resp.kind = "timeout")

\* the fixed text that names the kind of an error string
ErrorKind(r) == r[2]

\* C20: a 2xx response whose body is not valid JSON gives an error of a kind of its own,
\* used for no other failure, that carries the raw response text.
C20_ParseFailureCarriesText ==
    (OwnRequestAnswered /\ resp.kind = "invalid_json") =>
        LET r == Val(result)
        IN  /\ IsError(result)
            /\ \A f \in Failures : f.kind # "invalid_json" => ErrorKind(ResultFor(f)) # ErrorKind(r)
            /\ \E i \in 2..Len(r) : "text" \in DOMAIN r[i] /\ r[i].text = resp.text

(***************************************************************************)
(* Properties of the configuration check and of the query filters.         *)
(***************************************************************************)
CredentialMissing == ~env.username \/ ~env.secret \/ ~env.code
\* the error a tool returns when _make_api_request finds the configuration incomplete
ConfigurationError ==
    Some(<<"Error: ", "Unexpected error occurred: ",
           [exc |-> "ValueError",
            msg |-> IF ~env.username THEN "AUTOTASK_USERNAME environment variable not set"
                    ELSE IF ~env.secret THEN "AUTOTASK_SECRET environment variable not set"
                    ELSE "AUTOTASK_INTEGRATION_CODE environment variable not set"]>>)

\* C15 (as stated): with any of the four configuration values absent, every tool returns
\* a configuration error and no HTTP request is issued.
C15_Original ==
    (tool \in ToolNames /\ (CredentialMissing \/ ~env.api_url)) =>
        /\ wire = <<>>
        /\ (pc = "done" /\ ~InputRejected) => result = ConfigurationError

\* C15 (amended): with a credential (username, secret, integration code) absent no tool
\* issues a request and every tool whose input passed validation returns an error string;
\* it is the configuration error for the tools that go straight to their request.  An
\* absent base URL is no error: requests go to the default URL.
C15_MissingCredential ==
    /\ (tool \in ToolNames /\ CredentialMissing) =>
          /\ wire = <<>>
          /\ (pc = "done" /\ ~InputRejected) => IsError(result)
          /\ (pc = "done" /\ tool \notin {"update_ticket", "create_ticket", "create_time_entry"})
                => result = ConfigurationError
    /\ (tool \in ToolNames /\ ~CredentialMissing /\ ~env.api_url) =>
          \A i \in 1..Len(wire) :
             wire[i].base = "https://webservices.autotask.net/ATServicesRest/v1.0"

C15_Witness ==
    /\ tool = "add_ticket_note" /\ pc = "done"
    /\ env.username /\ ~env.secret /\ env.code /\ env.api_url
    /\ wire = <<>> /\ result = ConfigurationError

QueryPaths == {"Tickets/query", "Companies/query", "Contacts/query", "Resources/query"}
NonEmptyFilter(f) ==
    /\ Len(f) >= 1
    /\ \A j \in 1..Len(f) : "items" \in DOMAIN f[j] => Len(f[j].items) >= 1
NoConditionSupplied ==
    \/ tool \in SearchTools /\ SuppliedConditions = 0
    \/ tool = "search_companies" /\ ~TruthyStr(p.company_name)

\* C17: every body sent to an "<Entity>/query" path, by a search tool or by a resolver,
\* carries a non-empty filter list, and a search without any condition sends the
\* always-true condition "id exists".
C17_FilterNeverEmpty ==
    /\ \A i \in 1..Len(wire) :
          wire[i].endpoint \in QueryPaths => NonEmptyFilter(wire[i].data.filter)
    /\ (NoConditionSupplied /\ Len(wire) >= 1) => SentFilter = <<Exists>>

C17_Witness ==
    /\ tool = "search_companies" /\ p.company_name = Some(<<>>)
    /\ Len(wire) = 1 /\ wire[1].endpoint = "Companies/query"
    /\ wire[1].data.filter = <<[op |-> "exist", field |-> "id"]>>

NoIdentifyingInput ==
    \/ /\ tool = "lookup_resource_id"
       /\ ~TruthyStr(lk.name) /\ ~TruthyStr(lk.email)
    \/ /\ tool = "lookup_contact_id"
       /\ ~TruthyStr(lk.email) /\ ~TruthyStr(lk.name) /\ ~TruthyInt(lk.company_id)

\* C18: the resource resolver called with neither a name nor an email, and the contact
\* resolver called with no email, no name and no company id, return none without sending
\* any request.
C18_NoInputNoRequest ==
    NoIdentifyingInput =>
        /\ wire = <<>>
        /\ pc # "lookup" => (pc = "done" /\ ret = Returned(None))

C18_Witness ==
    /\ tool = "lookup_resource_id" /\ pc = "done" /\ validate_config.ok
    /\ lk.name = Some(<<>>) /\ lk.email = None
    /\ wire = <<>> /\ ret = Returned(None)

(***************************************************************************)
(* Properties of the request bodies and of the search results.             *)
(***************************************************************************)
\* C21: every body create time entry posts to "TimeEntries" contains hoursToBill; it is
\* the supplied hours_to_bill when the caller gave one, and hours_worked otherwise.
C21_HoursToBillDefault ==
    \A i \in 1..Len(wire) :
       (tool = "create_time_entry" /\ wire[i].endpoint = "TimeEntries") =>
           /\ "hoursToBill" \in DOMAIN wire[i].data
           /\ p.hours_to_bill # None => wire[i].data.hoursToBill = Val(p.hours_to_bill)
           /\ p.hours_to_bill = None => wire[i].data.hoursToBill = p.hours_worked

\* billable hours were omitted and one and a half hours worked were billed
C21_Witness ==
    /\ tool = "create_time_entry" /\ p.hours_to_bill = None /\ p.hours_worked = 150
    /\ Len(wire) >= 1 /\ wire[Len(wire)].endpoint = "TimeEntries"
    /\ wire[Len(wire)].data.hoursToBill = 150 /\ wire[Len(wire)].data.hoursWorked = 150

\* the number of records in a result of a search tool (none for an error string)
ListedCount(r) ==
    IF r[1] = "json" THEN Len(r[2].items)
    ELSE IF r[1] = "# Found Ticket(s)" THEN Len(r[3])
    ELSE 0

\* C22: whatever the upstream answers, a list longer than MaxRecords included, the result
\* of search tickets never holds more tickets than the caller's limit.
C22_SearchTruncatesToLimit ==
    (tool = "search_tickets" /\ pc = "done") => ListedCount(Val(result)) <= p.limit

\* "Tickets/{ticket id}/Notes" for the ticket ids of the model
NotePath(id) ==
    IF id = 1 THEN "Tickets/1/Notes" ELSE IF id = 2 THEN "Tickets/2/Notes" ELSE "Tickets/3/Notes"

\* C23: add ticket note sends its POST to the note sub-resource of the addressed ticket,
\* the path "Tickets/{ticket id}/Notes", for every ticket id.
C23_NoteSubResource ==
    \A i \in 1..Len(wire) :
       tool = "add_ticket_note" =>
           wire[i].method = "POST" /\ wire[i].endpoint = NotePath(p.ticket_id)

(***************************************************************************)
(* Properties of the calls of create ticket and create time entry.         *)
(***************************************************************************)
\* the place of a path in the order company, contact, resource, ticket (0: none of them)
CallRank(endpoint) ==
    CASE endpoint = "Companies/query" -> 1
      [] endpoint = "Contacts/query" -> 2
      [] endpoint = "Resources/query" -> 3
      [] endpoint = "Tickets" -> 4
      [] OTHER -> 0
\* the calls made so far are POSTs to the four paths, each at most once, in the fixed order
CallsInOrder ==
    /\ \A i \in 1..Len(wire) : wire[i].method = "POST" /\ CallRank(wire[i].endpoint) >= 1
    /\ \A i, j \in 1..Len(wire) :
          i < j => CallRank(wire[i].endpoint) < CallRank(wire[j].endpoint)
\* a request is out and has not been answered
AwaitingResponse == pc \in {"lookup_wait", "ct_wait"}

\* C25: within one create-ticket invocation the calls go out one at a time in the order
\* company lookup, contact lookup, resource lookup, ticket POST: each at most once, none
\* before the one before it was answered, the ticket POST last and nothing after it.
C25_SequentialFixedOrder ==
    /\ [](tool = "create_ticket" => CallsInOrder)
    /\ [][(tool' = "create_ticket" /\ wire' # wire) =>
             (~AwaitingResponse /\ Len(wire') = Len(wire) + 1)]_vars

\* all four calls were made, the ticket POST last, and the invocation is over
C25_Witness ==
    /\ tool = "create_ticket" /\ pc = "done" /\ Len(wire) = 4
    /\ wire[1].endpoint = "Companies/query" /\ wire[2].endpoint = "Contacts/query"
    /\ wire[3].endpoint = "Resources/query" /\ wire[4].endpoint = "Tickets"

NoRequestTo(endpoint) == \A i \in 1..Len(wire) : wire[i].endpoint # endpoint
\* the bodies sent to a path
BodiesTo(endpoint) == {wire[i].data : i \in {j \in 1..Len(wire) : wire[j].endpoint = endpoint}}

\* C26: a supplied numeric id suppresses the lookup, whatever name or email comes with it:
\* create ticket with company_id sends no Companies/query, with contact_id no
\* Contacts/query, with assigned_resource_id no Resources/query; create time entry with
\* resource_id sends no Resources/query; and the body sent carries the supplied id.
C26_SuppliedIdSuppressesLookup ==
    /\ (tool = "create_ticket" /\ p.company_id # None) =>
          /\ NoRequestTo("Companies/query")
          /\ \A d \in BodiesTo("Tickets") : d.companyID = Val(p.company_id)
    /\ (tool = "create_ticket" /\ p.contact_id # None) =>
          /\ NoRequestTo("Contacts/query")
          /\ \A d \in BodiesTo("Tickets") : d.contactID = p.contact_id
    /\ (tool = "create_ticket" /\ p.assigned_resource_id # None) =>
          /\ NoRequestTo("Resources/query")
          /\ \A d \in BodiesTo("Tickets") : d.assignedResourceID = p.assigned_resource_id
    /\ (tool = "create_time_entry" /\ p.resource_id # None) =>
          /\ NoRequestTo("Resources/query")
          /\ \A d \in BodiesTo("TimeEntries") : d.resourceID = Val(p.resource_id)

\* ids and names were given together for company, contact and resource: one request, the
\* ticket POST, with the three ids
C26_Witness ==
    /\ tool = "create_ticket" /\ pc = "done"
    /\ p.company_id = Some(1) /\ p.company_name = Some(<<"a">>)
    /\ p.contact_id = Some(1) /\ p.contact_name = Some(<<"a">>)
    /\ p.assigned_resource_id = Some(1) /\ p.assigned_resource_email = Some(<<"a">>)
    /\ Len(wire) = 1 /\ wire[1].endpoint = "Tickets"
    /\ wire[1].data.companyID = 1 /\ wire[1].data.contactID = Some(1)
    /\ wire[1].data.assignedResourceID = Some(1)

\* create ticket called the contact resolver, it returned none and the tool has resumed
ContactMissed ==
    /\ tool = "create_ticket" /\ "ticket_data" \in DOMAIN loc
    /\ ~TruthyInt(p.contact_id) /\ (TruthyStr(p.contact_email) \/ TruthyStr(p.contact_name))
    /\ \/ /\ lk.fn = "contact"
          /\ pc \notin {"lookup", "lookup_wait", "ct_contact_resolved"}
          /\ ~TruthyInt(ret.value)
       \/ lk.fn = "resource" /\ loc.ticket_data.contactID = None
\* create ticket called the resource resolver, it returned none and the tool has resumed
AssignedMissed ==
    /\ tool = "create_ticket" /\ lk.fn = "resource"
    /\ pc \notin {"lookup", "lookup_wait", "ct_resource_resolved"}
    /\ ~TruthyInt(ret.value)
\* the ticket POST is the last request made
TicketPosted == Len(wire) >= 1 /\ wire[Len(wire)].endpoint = "Tickets"
\* the result says what became of the ticket POST and nothing else
ResultOfPostAlone == result = Some(write_result(resp, "Ticket created successfully!"))

\* C27 (as stated): when the contact lookup or the assigned-resource lookup of create
\* ticket returns none, for no match or for any lookup error, the ticket POST is still
\* issued, its body omits contactID / assignedResourceID, and the result does not mention
\* the failed lookup.
C27_Original ==
    /\ (ContactMissed /\ pc = "done") =>
          /\ TicketPosted /\ wire[Len(wire)].data.contactID = None
          /\ ResultOfPostAlone
    /\ (AssignedMissed /\ pc = "done") =>
          /\ TicketPosted /\ wire[Len(wire)].data.assignedResourceID = None
          /\ ResultOfPostAlone

\* C27 (amended): when the contact lookup or the assigned-resource lookup returns none the
\* invocation goes on to the ticket POST and never ends at the lookup.  With the
\* credentials configured the POST is issued, its body omits contactID /
\* assignedResourceID, and the result is that of the POST alone; with a credential missing
\* (the lookup returned none for that reason, without a request) the POST is refused by
\* the configuration check, nothing is sent and the result is the configuration error.
C27_OptionalLookupMiss ==
    /\ (ContactMissed \/ AssignedMissed) =>
          pc \in {"ct_resource", "lookup", "lookup_wait", "ct_resource_resolved",
                  "ct_post", "ct_wait", "done"}
    /\ (ContactMissed /\ pc \in {"ct_wait", "done"}) =>
          IF validate_config.ok
          THEN /\ TicketPosted /\ wire[Len(wire)].data.contactID = None
               /\ pc = "done" => ResultOfPostAlone
          ELSE wire = <<>> /\ result = ConfigurationError
    /\ (AssignedMissed /\ pc \in {"ct_wait", "done"}) =>
          IF validate_config.ok
          THEN /\ TicketPosted /\ wire[Len(wire)].data.assignedResourceID = None
               /\ pc = "done" => ResultOfPostAlone
          ELSE wire = <<>> /\ result = ConfigurationError

\* the contact query found nobody and the ticket was created without a contact
C27_Witness ==
    /\ ContactMissed /\ pc = "done" /\ validate_config.ok
    /\ p.contact_id = None /\ p.contact_email = Some(<<"a">>)
    /\ Len(wire) = 2 /\ wire[1].endpoint = "Contacts/query" /\ wire[2].endpoint = "Tickets"
    /\ wire[2].data.contactID = None
    /\ Val(result)[1] = "Ticket created successfully!"

(***************************************************************************)
(* Properties of concurrent invocations.                                   *)
(***************************************************************************)
\* what an invocation running alone sends, and what it returns when answered with o
AloneRequest(t, q) ==
    CASE t = "get_ticket" -> make_api_request_send("GET", TicketPath(q.ticket_id), NoBody)
      [] t = "get_company" -> make_api_request_send("GET", CompanyPath(q.company_id), NoBody)
      [] t = "add_ticket_note" -> make_api_request_send("POST", "TicketNotes", note_data(q))
AloneResult(t, q, o) ==
    CASE t = "get_ticket" -> get_result(o, q, "## Ticket")
      [] t = "get_company" -> get_result(o, q, "## Company")
      [] t = "add_ticket_note" -> write_result(o, "Note added to ticket successfully!")
\* the requests and the result of the invocation with frame c are those of its tool
\* running alone on the same parameters and the same upstream answer
RunsAsAlone(c) ==
    CASE c.pc = "idle" -> c = IdleContext
      [] c.pc \in {"get_wait", "note_wait"} ->
            c.wire = <<AloneRequest(c.tool, c.p)>> /\ c.result = None
      [] c.pc = "done" ->
            IF validate_config.ok
            THEN /\ c.wire = <<AloneRequest(c.tool, c.p)>>
                 /\ c.result = Some(AloneResult(c.tool, c.p, c.resp))
            ELSE c.wire = <<>> /\ c.result = ConfigurationError

====
